---------------------------- MODULE Spec2Model ----------------------------
(***************************************************************************)
(* Multi-source candlestick forecasting pipeline:                          *)
(*   - SSMAttentionModel (src/src/models/model.js): build / train /        *)
(*     predict / batchPredict / dispose and the asynchronous fit loop;     *)
(*   - DataProcessor (src/src/utils/dataProcessor.js): normalize,          *)
(*     denormalize, prepareTrainingData, denormalizePrediction,            *)
(*     parseYFinanceCSV, and the handlers of the App class.                *)
(*                                                                         *)
(* The specifications share the variables:                                 *)
(*   Spec           the life cycle of one SSMAttentionModel object;        *)
(*   SpecWindow     one prepareTrainingData call on a fresh                *)
(*                  DataProcessor, its arguments drawn from bounded sets;  *)
(*   SpecNorm       sequences of normalize / denormalize /                 *)
(*                  prepareTrainingData calls on one DataProcessor;        *)
(*   SpecDenorm     prepareTrainingData, normalize of one column,          *)
(*                  denormalize and denormalizePrediction;                 *)
(*   SpecApp        the App: select target, change sources, load data,     *)
(*                  train (also during a training), predict;               *)
(*   SpecAttention  the life cycle with getSourceAttentionWeights;         *)
(*   SpecMetrics    one calculateDirectionAccuracy or                      *)
(*                  calculateCorrelation call;                             *)
(*   SpecCsv        one parseYFinanceCSV call;                             *)
(*   SpecMock       one generateMockData call;                             *)
(*   SpecSplit      the split and batch size of one train() call.          *)
(***************************************************************************)
EXTENDS Integers, Sequences, FiniteSets, TLC

VARIABLES
    model,            \* this.model: 0 is null, n > 0 the n-th network built
    netCount,         \* number of networks build() has created so far
    weights,          \* parameters of the network in this.model
    trained,          \* this.trained
    trainingHistory,  \* this.trainingHistory
    pc,               \* position of the train() call in progress
    run,              \* locals of the train() call in progress, and the
                      \* calls it made to callbacks.onEpochEnd
    trainCalls,       \* number of train() calls made so far
    lastCall,         \* the last API call or fit step, with its outcome
    normalizers,      \* DataProcessor.normalizers: key -> {min,max,range}
    dpCall,           \* the last DataProcessor call: arguments and result
    dpPrev,           \* the DataProcessor call before it
    app               \* the fields of the App object

modelVars == <<model, netCount, weights, trained, trainingHistory, pc, run,
               trainCalls, lastCall>>
dataVars == <<normalizers, dpCall, dpPrev>>
vars == <<model, netCount, weights, trained, trainingHistory, pc, run,
          trainCalls, lastCall, normalizers, dpCall, dpPrev, app>>

-----------------------------------------------------------------------------
(***************************************************************************)
(* Bounds of the life-cycle specification.                                 *)
(***************************************************************************)
MaxEpochs == 2
MaxSamples == 9
MaxBuilds == 2
MaxTrainCalls == 2

(***************************************************************************)
(* SSMAttentionModel.train: split index, batch size, batches per epoch.    *)
(***************************************************************************)
BatchFloor == 4
BatchCap == 16
BatchDivisor == 8

Min2(a, b) == IF a <= b THEN a ELSE b
Max2(a, b) == IF a >= b THEN a ELSE b

\* (mutant) the samples split in halves
SplitIdx_Half(n) == n \div 2

\* Math.floor(X.length * 0.8)
SplitIdx(n) == (n * 8) \div 10

\* Math.min(16, Math.max(4, Math.floor(X.length / 8)))
BatchSize(n) == Min2(BatchCap, Max2(BatchFloor, n \div BatchDivisor))

\* batches model.fit runs per epoch over the splitIdx training samples
NumBatches(n) == (SplitIdx(n) + BatchSize(n) - 1) \div BatchSize(n)

\* tensor.slice([begin, 0, 0], [size, -1, -1]); a size of -1 is the rest
TensorSlice(rows, begin, size) ==
    SubSeq(rows, begin + 1, IF size = 0 - 1 THEN Len(rows) ELSE begin + size)

\* array.slice(begin)
ArraySlice(rows, begin) == SubSeq(rows, begin + 1, Len(rows))

\* X.length of the trainingData handed to train(): empty (tf.tensor3d
\* throws), or large enough for a non-empty training slice -- the smallest
\* such length (one batch per epoch) and the largest within the bound.
\* (What model.fit does with an empty training slice, X.length = 1, is left
\* to the library.)
TrainSampleCounts ==
    {n \in 0..MaxSamples : n = 0 \/ n = 2 \/ (n = MaxSamples /\ SplitIdx(n) >= 1)}

LossValues == {"finite", "nonfinite"}

NoRun == [net |-> 0, epochs |-> 0, batches |-> 0, epoch |-> 0, batch |-> 0,
          historyStart |-> 0, netDisposed |-> FALSE, diverged |-> FALSE,
          built |-> FALSE, error |-> "none", callbacks |-> <<>>]

Call(op, result) == [op |-> op, result |-> result]

-----------------------------------------------------------------------------
(***************************************************************************)
(* State after `new SSMAttentionModel(config)` and `new DataProcessor()`.  *)
(***************************************************************************)
InitModel ==
    /\ model = 0
    /\ netCount = 0
    /\ weights = "none"
    /\ trained = FALSE
    /\ trainingHistory = <<>>
    /\ pc = "idle"
    /\ run = NoRun
    /\ trainCalls = 0
    /\ lastCall = Call("new", "ok")

InitData ==
    /\ normalizers = <<>>
    /\ dpCall = [op |-> "new"]
    /\ dpPrev = [op |-> "new"]

\* the App after its constructor: no data, no model, no forecast, no
\* training started and the Train button not disabled by any handler
InitApp ==
    app = [targetSymbol |-> "SPY",
           selectedSources |-> <<"SPY", "VIX", "TLT">>,
           data |-> [loaded |-> FALSE],
           loads |-> 0,
           hasModel |-> FALSE,
           modelData |-> [loaded |-> FALSE],
           predict |-> [made |-> FALSE],
           trainBtnDisabled |-> FALSE,
           config |-> [built |-> FALSE],
           displaced |-> 0,
           metrics |-> [made |-> FALSE]]

Init == InitModel /\ InitData /\ InitApp

-----------------------------------------------------------------------------
(***************************************************************************)
(* SSMAttentionModel                                                       *)
(***************************************************************************)

\* predict(): `if (!this.model) throw ...; if (!this.trained) throw ...`
PredictOutcome(m, t) ==
    IF m = 0 THEN "error"
    ELSE IF ~t THEN "error"
    ELSE "forecast"

\* batchPredict(): `if (!this.model || !this.trained) throw ...`
BatchPredictOutcome(m, t) ==
    IF m = 0 \/ ~t THEN "error" ELSE "forecast"

\* (mutant) train() without the build-on-demand branch
NetForTrain_NoBuild(m, count) == m

\* train(): `if (!this.model) { this.build(); }` -- the network train() fits
NetForTrain(m, count) == IF m = 0 THEN count + 1 ELSE m

\* what makes train() reject before the fit loop starts: tf.tensor3d(X) on an
\* empty X, or the caller's onTrainBegin raising; never the life-cycle state
TrainCallError(n, beginThrows) ==
    IF n = 0 THEN "tensor3d"
    ELSE IF beginThrows THEN "onTrainBegin"
    ELSE "none"

\* onTrainEnd: `this.trained = true`
TrainedAtTrainEnd == TRUE

\* the logs model.fit hands to onEpochEnd: once a loss of the run is
\* non-finite the parameters are non-finite and so is every later loss
EpochLogs(diverged) ==
    IF diverged THEN {"nonfinite"} ELSE LossValues

\* build(): this.model = tf.model(...); this.trained is left as it is
Build ==
    /\ netCount < MaxBuilds
    /\ model' = netCount + 1
    /\ netCount' = netCount + 1
    /\ weights' = "initial"
    /\ lastCall' = Call("build", "ok")
    /\ UNCHANGED <<trained, trainingHistory, pc, run, trainCalls>>
    /\ UNCHANGED dataVars
    /\ UNCHANGED app

\* dispose(): `if (this.model) { this.model.dispose(); this.model = null; }`
Dispose ==
    /\ IF model # 0
         THEN /\ model' = 0
              /\ weights' = "none"
              /\ run' = IF pc # "idle" /\ run.net = model
                          THEN [run EXCEPT !.netDisposed = TRUE]
                          ELSE run
         ELSE UNCHANGED <<model, weights, run>>
    /\ lastCall' = Call("dispose", "ok")
    /\ UNCHANGED <<netCount, trained, trainingHistory, pc, trainCalls>>
    /\ UNCHANGED dataVars
    /\ UNCHANGED app

Predict ==
    /\ lastCall' = Call("predict", PredictOutcome(model, trained))
    /\ UNCHANGED <<model, netCount, weights, trained, trainingHistory, pc, run,
                   trainCalls>>
    /\ UNCHANGED dataVars
    /\ UNCHANGED app

BatchPredict ==
    /\ lastCall' = Call("batchPredict", BatchPredictOutcome(model, trained))
    /\ UNCHANGED <<model, netCount, weights, trained, trainingHistory, pc, run,
                   trainCalls>>
    /\ UNCHANGED dataVars
    /\ UNCHANGED app

\* train(trainingData, callbacks) up to the first suspension of model.fit:
\* build when there is no network, tf.tensor3d(X) (throws on an empty X),
\* the split, and onTrainBegin with the caller's callback.
\*   n: X.length; e: this.config.epochs; beginThrows: callbacks.onTrainBegin
\*   raises.
TrainCall(n, e, beginThrows) ==
    /\ pc = "idle"
    /\ trainCalls < MaxTrainCalls
    /\ model # 0 \/ netCount < MaxBuilds
    /\ trainCalls' = trainCalls + 1
    /\ model' = NetForTrain(model, netCount)
    /\ netCount' = IF model = 0 THEN netCount + 1 ELSE netCount
    /\ weights' = IF model = 0 THEN "initial" ELSE weights
    /\ run' = [net |-> model', epochs |-> e, batches |-> NumBatches(n), epoch |-> 0,
               batch |-> 0, historyStart |-> Len(trainingHistory),
               netDisposed |-> FALSE, diverged |-> FALSE,
               built |-> (model = 0),
               error |-> TrainCallError(n, beginThrows),
               callbacks |-> <<>>]
    /\ IF n = 0 \/ beginThrows
         THEN /\ pc' = "idle"
              /\ lastCall' = Call("train", "rejected")
         ELSE /\ pc' = "batch"
              /\ lastCall' = Call("train", "started")
    /\ UNCHANGED <<trained, trainingHistory>>
    /\ UNCHANGED dataVars
    /\ UNCHANGED app

\* (mutant) two batch updates before control is given back
BatchesDone_TwoPerYield(batch) == batch + 2

\* batches of the epoch done when onBatchEnd's `await tf.nextFrame()`
\* suspends the run: one more than at the yield before
BatchesDone(batch) == batch + 1

\* one batch of model.fit: forward + backward + update, then onBatchEnd
\* (await tf.nextFrame()).  On a network disposed meanwhile the step either
\* raises (the train() promise rejects) or goes on with the detached network.
FitBatch(raises) ==
    /\ pc = "batch"
    /\ raises => run.netDisposed
    /\ IF raises
         THEN /\ pc' = "idle"
              /\ lastCall' = Call("train", "rejected")
              /\ run' = [run EXCEPT !.error = "fit"]
              /\ UNCHANGED weights
         ELSE /\ weights' = IF run.net = model THEN "partial" ELSE weights
              /\ run' = [run EXCEPT !.batch = BatchesDone(run.batch)]
              /\ pc' = IF BatchesDone(run.batch) >= run.batches
                         THEN "epochEnd" ELSE "batch"
              /\ lastCall' = Call("fit", "batchEnd")
    /\ UNCHANGED <<model, netCount, trained, trainingHistory, trainCalls>>
    /\ UNCHANGED dataVars
    /\ UNCHANGED app

\* (mutant) records numbered from 1
EpochRecord_FromOne(epoch, logs) ==
    [epoch |-> epoch + 1, loss |-> logs, valLoss |-> logs]

\* onEpochEnd: the record pushed, {epoch, loss: logs.loss, valLoss:
\* logs.val_loss} (logs.mse is left out of the model)
EpochRecord(epoch, logs) ==
    [epoch |-> epoch, loss |-> logs, valLoss |-> logs]

\* onEpochEnd: `callbacks.onEpochEnd(epoch, logs)` -- the arguments, and the
\* length this.trainingHistory has when the caller's callback runs
CallbackCall(epoch, logs, history) ==
    [epoch |-> epoch, loss |-> logs, valLoss |-> logs,
     recorded |-> Len(history)]

\* onEpochEnd: push the record, call callbacks.onEpochEnd, await nextFrame.
OnEpochEnd(loss, cbThrows) ==
    /\ pc = "epochEnd"
    /\ loss \in EpochLogs(run.diverged)
    /\ trainingHistory' = Append(trainingHistory, EpochRecord(run.epoch, loss))
    /\ LET called == Append(run.callbacks,
                            CallbackCall(run.epoch, loss, trainingHistory'))
       IN IF cbThrows
            THEN /\ pc' = "idle"
                 /\ lastCall' = Call("train", "rejected")
                 /\ run' = [run EXCEPT !.diverged = (loss = "nonfinite"),
                                        !.error = "onEpochEnd",
                                        !.callbacks = called]
            ELSE /\ lastCall' = Call("fit", "epochEnd")
                 /\ IF run.epoch + 1 < run.epochs
                      THEN /\ run' = [run EXCEPT
                                         !.epoch = run.epoch + 1,
                                         !.batch = 0,
                                         !.diverged = (loss = "nonfinite"),
                                         !.callbacks = called]
                           /\ pc' = "batch"
                      ELSE /\ run' = [run EXCEPT
                                         !.diverged = (loss = "nonfinite"),
                                         !.callbacks = called]
                           /\ pc' = "trainEnd"
    /\ UNCHANGED <<model, netCount, weights, trained, trainCalls>>
    /\ UNCHANGED dataVars
    /\ UNCHANGED app

\* onTrainEnd, then the finally block and `return this.trainingHistory`:
\* what it does to the model
TrainEnds(cbThrows) ==
    /\ pc = "trainEnd"
    /\ trained' = TrainedAtTrainEnd
    /\ pc' = "idle"
    /\ IF cbThrows
         THEN /\ lastCall' = Call("train", "rejected")
              /\ run' = [run EXCEPT !.error = "onTrainEnd"]
              /\ UNCHANGED weights
         ELSE /\ lastCall' = Call("train", "ok")
              /\ weights' = IF run.net = model THEN "fitted" ELSE weights
              /\ UNCHANGED run
    /\ UNCHANGED <<model, netCount, trainingHistory, trainCalls>>

\* the end of a train() call made on the model alone
OnTrainEnd(cbThrows) ==
    /\ TrainEnds(cbThrows)
    /\ UNCHANGED dataVars
    /\ UNCHANGED app

Next ==
    \/ Build
    \/ Dispose
    \/ Predict
    \/ BatchPredict
    \/ \E n \in TrainSampleCounts, e \in 1..MaxEpochs, b \in BOOLEAN :
          TrainCall(n, e, b)
    \/ \E r \in BOOLEAN : FitBatch(r)
    \/ \E l \in LossValues, c \in BOOLEAN : OnEpochEnd(l, c)
    \/ \E c \in BOOLEAN : OnTrainEnd(c)

Spec == Init /\ [][Next]_vars

-----------------------------------------------------------------------------
(***************************************************************************)
(* Life cycle of the model as the specification describes it:              *)
(* Unbuilt (no network), Built (a network whose parameters no train() call *)
(* has finished fitting), Trained (a train() call on the network in        *)
(* this.model completed successfully).                                     *)
(***************************************************************************)
LifecycleState ==
    IF model = 0 THEN "Unbuilt"
    ELSE IF weights = "fitted" THEN "Trained"
    ELSE "Built"

TrainCallStep == trainCalls' = trainCalls + 1

\* C1: predict and batchPredict return a forecast only when the model is
\* Trained, i.e. a train() call on the network it holds completed
\* successfully; in the Unbuilt and the Built-but-untrained state they fail.
C1_ForecastOnlyWhenTrained ==
    (lastCall.op \in {"predict", "batchPredict"} /\ lastCall.result = "forecast")
        => LifecycleState = "Trained"

\* C2: whenever a train() call fails (its promise rejects, for any reason),
\* the model is not Trained afterwards and a following predict is rejected.
C2_FailedTrainNotTrained ==
    lastCall = Call("train", "rejected")
        => (~trained /\ PredictOutcome(model, trained) = "error")

\* C3: once an epoch of a train() run has reported a non-finite loss, the run
\* is aborted: it does not go on to a later epoch or to onTrainEnd, it does
\* not resolve, and the model is not Trained.
C3_DivergenceAborts ==
    run.diverged =>
        /\ pc = "idle"
        /\ lastCall # Call("train", "ok")
        /\ ~trained

RunRecords ==
    SubSeq(trainingHistory, run.historyStart + 1, Len(trainingHistory))

-----------------------------------------------------------------------------
(***************************************************************************)
(* JavaScript numbers, as far as DataProcessor uses them: exact rationals  *)
(* n/d in lowest terms (d > 0), NaN, +Infinity and -Infinity.  `undefined` *)
(* reaches arithmetic and Math.min/Math.max only, where it acts as NaN.    *)
(***************************************************************************)
RECURSIVE Gcd(_, _)
Gcd(a, b) == IF b = 0 THEN a ELSE Gcd(b, a % b)

Abs(i) == IF i < 0 THEN -i ELSE i

Fin(n, d) ==
    LET g == Gcd(Abs(n), Abs(d))
        sgn == IF d < 0 THEN -1 ELSE 1
    IN  [k |-> "fin", n |-> sgn * (n \div g), d |-> sgn * (d \div g)]

Num(i) == [k |-> "fin", n |-> i, d |-> 1]
NaN == [k |-> "nan", n |-> 0, d |-> 1]
PosInf == [k |-> "inf", n |-> 1, d |-> 1]
NegInf == [k |-> "inf", n |-> -1, d |-> 1]

IsNum(v) == DOMAIN v = {"k", "n", "d"}
IsFinite(a) == a.k = "fin"
IsNaN(a) == a.k = "nan"
SignOf(a) == IF a.n > 0 THEN 1 ELSE IF a.n < 0 THEN -1 ELSE 0
InfOf(sgn) == IF sgn > 0 THEN PosInf ELSE NegInf

Neg(a) == [a EXCEPT !.n = -a.n]

Add(a, b) ==
    IF IsNaN(a) \/ IsNaN(b) THEN NaN
    ELSE IF a.k = "inf" /\ b.k = "inf" THEN (IF a.n = b.n THEN a ELSE NaN)
    ELSE IF a.k = "inf" THEN a
    ELSE IF b.k = "inf" THEN b
    ELSE Fin(a.n * b.d + b.n * a.d, a.d * b.d)

Sub(a, b) == Add(a, Neg(b))

Mul(a, b) ==
    IF IsNaN(a) \/ IsNaN(b) THEN NaN
    ELSE IF a.k = "inf" \/ b.k = "inf"
      THEN (IF SignOf(a) = 0 \/ SignOf(b) = 0 THEN NaN
            ELSE InfOf(SignOf(a) * SignOf(b)))
    ELSE Fin(a.n * b.n, a.d * b.d)

Div(a, b) ==
    IF IsNaN(a) \/ IsNaN(b) THEN NaN
    ELSE IF a.k = "inf" /\ b.k = "inf" THEN NaN
    ELSE IF a.k = "inf"
      THEN InfOf(SignOf(a) * (IF SignOf(b) < 0 THEN -1 ELSE 1))
    ELSE IF b.k = "inf" THEN Num(0)
    ELSE IF b.n = 0
      THEN (IF a.n = 0 THEN NaN ELSE InfOf(SignOf(a)))
    ELSE Fin(a.n * b.d, a.d * b.n)

\* a < b, for operands that are not NaN
Less(a, b) ==
    IF a.k = "inf" \/ b.k = "inf"
      THEN (IF a.k = "inf" /\ b.k = "inf" THEN a.n < b.n
            ELSE IF a.k = "inf" THEN a.n < 0
            ELSE b.n > 0)
    ELSE a.n * b.d < b.n * a.d

LessEq(a, b) == a = b \/ Less(a, b)

\* `x || 1` on a number: 0 and NaN are falsy
OrOne(x) == IF IsNaN(x) \/ (IsFinite(x) /\ x.n = 0) THEN Num(1) ELSE x

RECURSIVE MathMinFrom(_, _, _)
MathMinFrom(vals, i, acc) ==
    IF i > Len(vals) THEN acc
    ELSE IF IsNaN(vals[i]) THEN NaN
    ELSE MathMinFrom(vals, i + 1, IF Less(vals[i], acc) THEN vals[i] ELSE acc)

\* Math.min(...vals): Infinity for no arguments, NaN if any argument is
MathMin(vals) == MathMinFrom(vals, 1, PosInf)

RECURSIVE MathMaxFrom(_, _, _)
MathMaxFrom(vals, i, acc) ==
    IF i > Len(vals) THEN acc
    ELSE IF IsNaN(vals[i]) THEN NaN
    ELSE MathMaxFrom(vals, i + 1, IF Less(acc, vals[i]) THEN vals[i] ELSE acc)

\* Math.max(...vals): -Infinity for no arguments, NaN if any argument is
MathMax(vals) == MathMaxFrom(vals, 1, NegInf)

-----------------------------------------------------------------------------
(***************************************************************************)
(* DataProcessor: normalize / denormalize                                  *)
(***************************************************************************)

\* this.normalizers as a function from keys to {min, max, range}
HasKey(nz, key) == key \in DOMAIN nz
Put(nz, key, entry) ==
    [x \in DOMAIN nz \cup {key} |-> IF x = key THEN entry ELSE nz[x]]

\* ToNumber of an array element: a number is itself, an object is NaN
AsNumber(v) == IF IsNum(v) THEN v ELSE NaN

\* d[key] used as a number: undefined (no such property, or d is a number)
\* acts as NaN
PropertyOf(v, key) ==
    IF ~IsNum(v) /\ key \in DOMAIN v THEN AsNumber(v[key]) ELSE NaN

\* `const values = key ? data.map(d => d[key]) : data`
NormalizeValues(data, key) ==
    IF key # "" THEN [i \in 1..Len(data) |-> PropertyOf(data[i], key)]
    ELSE [i \in 1..Len(data) |-> AsNumber(data[i])]

\* `const normalizeKey = key || 'default'`
NormalizeKey(key) == IF key = "" THEN "default" ELSE key

\* min, max and `range = max - min || 1`
MinMaxEntry(values) ==
    LET mn == MathMin(values)
        mx == MathMax(values)
    IN  [min |-> mn, max |-> mx, range |-> OrOne(Sub(mx, mn))]

\* `(v - min) / range`
Scale(v, entry) == Div(Sub(v, entry.min), entry.range)

\* `v * params.range + params.min`
Unscale(v, entry) == Add(Mul(v, entry.range), entry.min)

\* normalize(data, key): the entry is computed from the values of this call
\* and set under the key whether or not one is stored already
Normalize(data, key) ==
    LET values == NormalizeValues(data, key)
        entry == MinMaxEntry(values)
    IN  /\ normalizers' = Put(normalizers, NormalizeKey(key), entry)
        /\ dpCall' = [op |-> "normalize", data |-> data, key |-> key,
                      values |-> values,
                      result |-> [i \in 1..Len(values) |->
                                     Scale(values[i], entry)]]
        /\ dpPrev' = dpCall
        /\ UNCHANGED modelVars
        /\ UNCHANGED app

DenormalizeResult_ZeroForUnknown(nz, values, key) ==
    IF ~HasKey(nz, NormalizeKey(key))
      THEN [i \in 1..Len(values) |-> Num(0)]
      ELSE [i \in 1..Len(values) |->
               Unscale(AsNumber(values[i]), nz[NormalizeKey(key)])]

\* denormalize(normalizedValues, key): without an entry the input is returned
DenormalizeResult(nz, values, key) ==
    IF ~HasKey(nz, NormalizeKey(key)) THEN values
    ELSE [i \in 1..Len(values) |->
             Unscale(AsNumber(values[i]), nz[NormalizeKey(key)])]

\* (mutant) a lookup that misses stores the identity parameters
NormalizersAfterLookup_StoresIdentity(nz, key) ==
    IF HasKey(nz, key) THEN nz
    ELSE Put(nz, key, [min |-> Num(0), max |-> Num(1), range |-> Num(1)])

\* the map after `this.normalizers.get(key)` in denormalize and
\* denormalizePrediction, which make no other use of the map
NormalizersAfterLookup(nz, key) == nz

Denormalize(values, key) ==
    /\ dpCall' = [op |-> "denormalize", data |-> values, key |-> key,
                  warned |-> ~HasKey(normalizers, NormalizeKey(key)),
                  result |-> DenormalizeResult(normalizers, values, key)]
    /\ dpPrev' = dpCall
    /\ normalizers' = NormalizersAfterLookup(normalizers, NormalizeKey(key))
    /\ UNCHANGED modelVars
    /\ UNCHANGED app

-----------------------------------------------------------------------------
(***************************************************************************)
(* DataProcessor.prepareTrainingData                                       *)
(*                                                                         *)
(* multiSourceData is a plain object: [order |-> the identifiers in the    *)
(* order they were inserted, series |-> identifier -> candles].            *)
(***************************************************************************)
NumFeatures == 5
OhlcDims == 4
VolumeScale == 1000000

\* identifiers that are canonical array indices, with their numeric value:
\* Object.keys lists these first, in ascending numeric order
ArrayIndexValue == ("7" :> 7) @@ ("30" :> 30)
IsArrayIndex(id) == id \in DOMAIN ArrayIndexValue

RECURSIVE AscendingIndexKeys(_)
AscendingIndexKeys(ids) ==
    IF ids = {} THEN <<>>
    ELSE LET least == CHOOSE a \in ids :
                         \A b \in ids : ArrayIndexValue[a] <= ArrayIndexValue[b]
         IN  <<least>> \o AscendingIndexKeys(ids \ {least})

IsStringKey(id) == ~IsArrayIndex(id)

ObjectKeys_InsertionOrder(order) == order

\* Object.keys(multiSourceData)
ObjectKeys(order) ==
    AscendingIndexKeys({order[i] : i \in {j \in 1..Len(order) :
                                             IsArrayIndex(order[j])}})
        \o SelectSeq(order, IsStringKey)

\* extractFeatures: [open, high, low, close, volume / 1000000]
ExtractFeatures(data) ==
    [i \in 1..Len(data) |->
        <<data[i].open, data[i].high, data[i].low, data[i].close,
          Div(data[i].volume, Num(VolumeScale))>>]

\* `${symbol}_dim${dim}`
FeatureKey(symbol, dim) == symbol \o "_dim" \o ToString(dim)

RECURSIVE SeqMinLen(_, _, _)
SeqMinLen(series, keys, i) ==
    IF i > Len(keys) THEN 0
    ELSE IF i = Len(keys) THEN Len(series[keys[i]])
    ELSE Min2(Len(series[keys[i]]), SeqMinLen(series, keys, i + 1))

\* Math.min(...Object.values(multiSourceData).map(d => d.length)), for a map
\* that is not empty
MinLength(msd) == SeqMinLen(msd.series, ObjectKeys(msd.order), 1)

\* features of a source after `.slice(0, minLength)`
SourceFeatures(msd, symbol) ==
    ExtractFeatures(SubSeq(msd.series[symbol], 1, MinLength(msd)))

\* the entries one source adds: for each dimension whose key is absent, the
\* min/max over the truncated series; nothing for a series without rows
RECURSIVE WithSourceEntries(_, _, _, _)
WithSourceEntries(nz, symbol, features, dim) ==
    IF dim >= NumFeatures \/ Len(features) = 0 THEN nz
    ELSE LET key == FeatureKey(symbol, dim)
             column == [i \in 1..Len(features) |-> features[i][dim + 1]]
             nz1 == IF HasKey(nz, key) THEN nz
                    ELSE Put(nz, key, MinMaxEntry(column))
         IN  WithSourceEntries(nz1, symbol, features, dim + 1)

\* this.normalizers after the sources.forEach of prepareTrainingData
RECURSIVE WithAllEntries(_, _, _, _)
WithAllEntries(nz, msd, keys, i) ==
    IF i > Len(keys) THEN nz
    ELSE WithAllEntries(
             WithSourceEntries(nz, keys[i], SourceFeatures(msd, keys[i]), 0),
             msd, keys, i + 1)

\* normalizedSources[symbol]: every value scaled with the stored entry
NormalizedSource(nz, msd, symbol) ==
    LET features == SourceFeatures(msd, symbol)
    IN  [i \in 1..Len(features) |->
            [d \in 1..NumFeatures |->
                Scale(features[i][d], nz[FeatureKey(symbol, d - 1)])]]

RECURSIVE Flatten(_)
Flatten(rows) ==
    IF Len(rows) = 0 THEN <<>> ELSE Head(rows) \o Flatten(Tail(rows))

\* timeStep of X[i] at offset t: every source's row i + t, in sources order
TimeStep(nz, msd, keys, pos) ==
    Flatten([k \in 1..Len(keys) |-> NormalizedSource(nz, msd, keys[k])[pos + 1]])

\* X[i]: lookback time steps from position i on
InputSequence(nz, msd, keys, i, lookback) ==
    [t \in 1..lookback |-> TimeStep(nz, msd, keys, i + (t - 1))]

TargetSequence_AllFeatures(nz, msd, target, i, lookback, forecast) ==
    [t \in 1..forecast |->
        NormalizedSource(nz, msd, target)[i + lookback + (t - 1) + 1]]

\* Y[i]: `.slice(0, 4)` of the target's rows i + lookback + t
TargetSequence(nz, msd, target, i, lookback, forecast) ==
    [t \in 1..forecast |->
        SubSeq(NormalizedSource(nz, msd, target)[i + lookback + (t - 1) + 1],
               1, OhlcDims)]

\* `const totalSamples = minLength - lookback - forecast`
TotalSamples(minLength, lookback, forecast) == minLength - lookback - forecast

\* the value prepareTrainingData returns, or the TypeError of reading
\* normalizedSources[targetSymbol][...] when targetSymbol is no key of the
\* map and the sample loop runs at least once (for an empty map minLength is
\* Infinity and the loop does run)
PrepareResult(nz, msd, target, lookback, forecast) ==
    LET keys == ObjectKeys(msd.order)
        hasTarget == \E k \in 1..Len(keys) : keys[k] = target
        minLength == MinLength(msd)
        total == TotalSamples(minLength, lookback, forecast)
        count == IF total > 0 THEN total ELSE 0
        loops == Len(keys) = 0 \/ total > 0
    IN  IF loops /\ ~hasTarget
          THEN [status |-> "TypeError", X |-> <<>>, Y |-> <<>>,
                sources |-> keys, featureCount |-> 0]
          ELSE [status |-> "ok",
                X |-> [i \in 1..count |->
                          InputSequence(nz, msd, keys, i - 1, lookback)],
                Y |-> [i \in 1..count |->
                          TargetSequence(nz, msd, target, i - 1, lookback,
                                         forecast)],
                sources |-> keys,
                featureCount |-> Len(keys) * NumFeatures]

\* prepareTrainingData(multiSourceData, targetSymbol, lookback, forecast);
\* the entries are written before the sample loop, also when it throws
PrepareTrainingData(msd, target, lookback, forecast) ==
    LET nz1 == WithAllEntries(normalizers, msd, ObjectKeys(msd.order), 1)
    IN  /\ normalizers' = nz1
        /\ dpCall' = [op |-> "prepareTrainingData", msd |-> msd,
                      target |-> target, lookback |-> lookback,
                      forecast |-> forecast,
                      result |-> PrepareResult(nz1, msd, target, lookback,
                                               forecast)]
        /\ dpPrev' = dpCall
        /\ UNCHANGED modelVars
        /\ UNCHANGED app

-----------------------------------------------------------------------------
(***************************************************************************)
(* DataProcessor.denormalizePrediction                                     *)
(***************************************************************************)
DenormalizeDim_NoOffset(nz, key, v) ==
    IF HasKey(nz, key) THEN Mul(v, nz[key].range) ELSE v

\* one value of a forecast row: `prediction[t][dim] * params.range +
\* params.min` when the key has an entry, the value itself when it has none
DenormalizeDim(nz, key, v) ==
    IF HasKey(nz, key) THEN Unscale(v, nz[key]) ELSE v

DenormalizePredictionResult(nz, prediction, targetSymbol) ==
    [t \in 1..Len(prediction) |->
        LET row == [dim \in 0..3 |->
                       DenormalizeDim(nz, FeatureKey(targetSymbol, dim),
                                      prediction[t][dim + 1])]
        IN  [open |-> row[0], high |-> row[1], low |-> row[2],
             close |-> row[3]]]

\* denormalizePrediction(prediction, targetSymbol)
DenormalizePrediction(prediction, targetSymbol) ==
    /\ dpCall' = [op |-> "denormalizePrediction", prediction |-> prediction,
                  target |-> targetSymbol,
                  result |-> DenormalizePredictionResult(normalizers,
                                                         prediction,
                                                         targetSymbol)]
    /\ dpPrev' = dpCall
    /\ normalizers' = NormalizersAfterLookup(normalizers,
                                             FeatureKey(targetSymbol, 0))
    /\ UNCHANGED modelVars
    /\ UNCHANGED app

-----------------------------------------------------------------------------
(***************************************************************************)
(* Inputs of prepareTrainingData and the specification of one call on a    *)
(* processor that has no normalizer yet.                                   *)
(***************************************************************************)
MaxSources == 2
MaxLen == 5
MaxLookback == 2
MaxForecast == 2

SourceIds == {"SPY", "VIX", "7", "30"}

\* first open price and the change of the price per row of each source; the
\* series of "7" is constant in its four price columns
BasePrice == ("SPY" :> 100) @@ ("VIX" :> 20) @@ ("7" :> 50) @@ ("30" :> 70)
PriceStep == ("SPY" :> 2) @@ ("VIX" :> (0 - 1)) @@ ("7" :> 0) @@ ("30" :> 5)

\* row p of a source: { open, high, low, close, volume }
Candle(s, p) ==
    LET open == BasePrice[s] + PriceStep[s] * p
    IN  [open |-> Num(open), high |-> Num(open + 3), low |-> Num(open - 1),
         close |-> Num(open + 1), volume |-> Num(500000 * (p + 1))]

Series(s, len) == [p \in 1..len |-> Candle(s, p - 1)]

SeriesLengths == {0} \cup {n \in 1..MaxLen : n >= MaxLen - 1}

Range(sq) == {sq[i] : i \in 1..Len(sq)}

\* the orders in which up to MaxSources distinct identifiers are inserted
InsertionOrders ==
    {o \in UNION {[1..n -> SourceIds] : n \in 0..MaxSources} :
        \A i, j \in 1..Len(o) : o[i] = o[j] => i = j}

SourceMaps ==
    UNION {{[order |-> o, series |-> [s \in Range(o) |-> Series(s, len[s])]] :
               len \in [Range(o) -> SeriesLengths]} : o \in InsertionOrders}

WindowNext ==
    \E msd \in SourceMaps, target \in SourceIds,
       lookback \in 1..MaxLookback, forecast \in 1..MaxForecast :
        /\ dpCall.op = "new"
        /\ PrepareTrainingData(msd, target, lookback, forecast)

SpecWindow == Init /\ [][WindowNext]_vars

-----------------------------------------------------------------------------
(***************************************************************************)
(* Claims about prepareTrainingData, stated on the call recorded in dpCall *)
(* and on this.normalizers as the call left it.                            *)
(***************************************************************************)
WindowCall == dpCall.op = "prepareTrainingData"

SourceSet(msd) == DOMAIN msd.series

\* length of the shortest series of a map that is not empty
ShortestLength(msd) ==
    CHOOSE n \in {Len(msd.series[s]) : s \in SourceSet(msd)} :
        \A s \in SourceSet(msd) : n <= Len(msd.series[s])

\* minLength - lookback - forecast of the recorded call
WindowCount ==
    ShortestLength(dpCall.msd) - dpCall.lookback - dpCall.forecast

\* C5: a call whose shortest series gives minLength - lookback - forecast <= 0
\* fails with InsufficientDataError and never returns an empty sample set.
C5_InsufficientDataFails ==
    (WindowCall /\ SourceSet(dpCall.msd) # {} /\ WindowCount <= 0)
        => /\ dpCall.result.status = "InsufficientDataError"
           /\ ~(dpCall.result.status = "ok" /\ Len(dpCall.result.X) = 0)

\* C6: a call whose target is not a key of the source map fails with
\* MissingTargetError, whatever the series lengths, lookback and forecast,
\* zero-sample combinations included.
C6_MissingTargetFails ==
    (WindowCall /\ dpCall.target \notin SourceSet(dpCall.msd))
        => dpCall.result.status = "MissingTargetError"

\* C7: when the shortest series has length L and L - lookback - forecast > 0,
\* a call for a target of the map returns exactly L - lookback - forecast
\* samples, every X[i] is lookback rows of numSources * 5 values, every Y[i]
\* is forecast rows of 4 values, and featureCount is numSources * 5.
C7_WindowCountAndShapes ==
    (/\ WindowCall
     /\ dpCall.target \in SourceSet(dpCall.msd)
     /\ WindowCount > 0)
        => LET r == dpCall.result
               width == Cardinality(SourceSet(dpCall.msd)) * 5
           IN  /\ r.status = "ok"
               /\ Len(r.X) = WindowCount
               /\ Len(r.Y) = WindowCount
               /\ \A i \in 1..Len(r.X) :
                     /\ Len(r.X[i]) = dpCall.lookback
                     /\ \A t \in 1..Len(r.X[i]) : Len(r.X[i][t]) = width
               /\ \A i \in 1..Len(r.Y) :
                     /\ Len(r.Y[i]) = dpCall.forecast
                     /\ \A t \in 1..Len(r.Y[i]) : Len(r.Y[i][t]) = 4
               /\ r.featureCount = width

\* C7 witness: two sources of different lengths, the shorter one deciding the
\* number of samples, and a call that returned two samples.
C7_Witness ==
    /\ WindowCall
    /\ dpCall.result.status = "ok"
    /\ Cardinality(SourceSet(dpCall.msd)) = 2
    /\ \E s \in SourceSet(dpCall.msd) :
          Len(dpCall.msd.series[s]) > ShortestLength(dpCall.msd)
    /\ WindowCount = 2
    /\ Len(dpCall.result.X) = 2

\* feature d (1..5) of a row: open, high, low, close, volume in millions
RawFeature(candle, d) ==
    CASE d = 1 -> candle.open
      [] d = 2 -> candle.high
      [] d = 3 -> candle.low
      [] d = 4 -> candle.close
      [] d = 5 -> Div(candle.volume, Num(1000000))

\* feature d of row pos (from 0) of source s of the recorded call, scaled
\* with the entry this.normalizers holds for that source and dimension
NormalizedAt(s, pos, d) ==
    LET e == normalizers[FeatureKey(s, d - 1)]
    IN  Div(Sub(RawFeature(dpCall.msd.series[s][pos + 1], d), e.min), e.range)

\* the entry of source s and feature d is the minimum and the maximum of the
\* feature over the first minLength rows, with range max - min, or 1 when
\* the two are equal
EntryOfTruncatedSeries(s, d) ==
    LET e == normalizers[FeatureKey(s, d - 1)]
        rows == 1..ShortestLength(dpCall.msd)
        at(p) == RawFeature(dpCall.msd.series[s][p], d)
    IN  /\ \E p \in rows : e.min = at(p)
        /\ \A p \in rows : LessEq(e.min, at(p))
        /\ \E p \in rows : e.max = at(p)
        /\ \A p \in rows : LessEq(at(p), e.max)
        /\ e.range = IF e.max = e.min THEN Num(1) ELSE Sub(e.max, e.min)

PositionIn(sq, x) == CHOOSE i \in 1..Len(sq) : sq[i] = x

\* x comes before y in the enumeration of the keys of an object: array
\* indices in ascending numeric order, then the other keys as inserted
KeyPrecedes(x, y, order) ==
    IF IsArrayIndex(x) /\ IsArrayIndex(y)
      THEN ArrayIndexValue[x] < ArrayIndexValue[y]
      ELSE IF IsArrayIndex(x) THEN TRUE
      ELSE IF IsArrayIndex(y) THEN FALSE
      ELSE PositionIn(order, x) < PositionIn(order, y)

\* the samples of the recorded call are the windows over the normalized
\* series, the sources of a time step concatenated in the order of keys
WindowsFollow(keys) ==
    LET r == dpCall.result
        lookback == dpCall.lookback
        forecast == dpCall.forecast
    IN  /\ Len(keys) = Cardinality(SourceSet(dpCall.msd))
        /\ \A i \in 1..Len(r.X), t \in 1..lookback :
              /\ Len(r.X[i][t]) = Len(keys) * 5
              /\ \A k \in 1..Len(keys), d \in 1..5 :
                    r.X[i][t][(k - 1) * 5 + d]
                        = NormalizedAt(keys[k], (i - 1) + (t - 1), d)
        /\ \A i \in 1..Len(r.Y), u \in 1..forecast :
              /\ Len(r.Y[i][u]) = 4
              /\ \A d \in 1..4 :
                    r.Y[i][u][d]
                        = NormalizedAt(dpCall.target,
                                       (i - 1) + lookback + (u - 1), d)
        /\ \A i \in 1..Len(r.X), t \in 1..lookback, u \in 1..forecast :
              (i - 1) + lookback + (u - 1) > (i - 1) + (t - 1)
        /\ dpPrev.op = "new" =>
              \A s \in SourceSet(dpCall.msd), d \in 1..5 :
                  ShortestLength(dpCall.msd) > 0 => EntryOfTruncatedSeries(s, d)

\* C8 as claimed: X[i][t] is the concatenation, in the insertion order of the
\* source map, of every source's normalized five features at row i + t of the
\* truncated series, and Y[i][t] is the target's normalized first four
\* features at row i + lookback + t, later than every input row of sample i.
C8_WindowsInInsertionOrder ==
    (WindowCall /\ dpCall.result.status = "ok")
        => WindowsFollow(dpCall.msd.order)

\* C8 amended: the sources of a time step are concatenated in the order of
\* the returned `sources` list, which is the key enumeration order of the
\* source map: identifiers that are array indices ("7", "30") first, in
\* ascending numeric order, then the other identifiers in insertion order;
\* the rest is as claimed.
C8_WindowsInKeyOrder ==
    (WindowCall /\ dpCall.result.status = "ok")
        => LET keys == dpCall.result.sources
           IN  /\ Range(keys) = SourceSet(dpCall.msd)
               /\ \A a, b \in 1..Len(keys) :
                     a < b => KeyPrecedes(keys[a], keys[b], dpCall.msd.order)
               /\ WindowsFollow(keys)

\* C8 witness: a returned call with two samples of two rows each, on a map
\* whose key enumeration order is not its insertion order.
C8_Witness ==
    /\ WindowCall
    /\ dpCall.result.status = "ok"
    /\ dpCall.result.sources # dpCall.msd.order
    /\ dpCall.lookback = 2
    /\ Len(dpCall.result.X) >= 2
    /\ Len(dpCall.result.Y) >= 2

-----------------------------------------------------------------------------
(***************************************************************************)
(* Sequences of normalize, denormalize and prepareTrainingData calls on    *)
(* one processor.                                                          *)
(***************************************************************************)
\* arguments of normalize: the empty array, a constant array, two arrays of
\* different extent, and an array of rows to be read through a property
NormalizeData ==
    {<<>>, <<Num(5), Num(5)>>, <<Num(0), Num(10)>>, <<Num(10), Num(30)>>,
     Series("SPY", 2)}

\* key arguments: "" stands for the omitted key (null)
NormalizeKeys == {"", "close"}
DenormalizeKeys == NormalizeKeys \cup {"SPY_dim0", "volume"}

\* arguments of denormalize: what the preceding normalize returned, or a
\* prediction of the caller
DenormalizeValues ==
    {<<Num(0), Fin(1, 2)>>}
        \cup (IF dpCall.op = "normalize" THEN {dpCall.result} ELSE {})

SingleSourceMaps == {msd \in SourceMaps : msd.order = <<"SPY">>}

\* a later load of "SPY" whose rows have another price range
RepricedSourceMap ==
    [order |-> <<"SPY">>, series |-> [s \in {"SPY"} |-> Series("30", MaxLen)]]

\* rows that carry a column named like the feature key of one dimension
DimColumnKey == "VIX_dim1"
DimColumnRows == <<[VIX_dim1 |-> Num(2)], [VIX_dim1 |-> Num(6)]>>

\* model outputs: forecast rows of four values
ForecastRows ==
    <<<<Num(0), Fin(1, 2), Num(1), Fin(1, 4)>>,
      <<Num(1), Num(2), Fin(0 - 1, 2), Num(0)>>>>
Predictions == {SubSeq(ForecastRows, 1, n) : n \in 0..Len(ForecastRows)}

NormNext ==
    \/ \E data \in NormalizeData, key \in NormalizeKeys :
          Normalize(data, key)
    \/ \E values \in DenormalizeValues, key \in DenormalizeKeys :
          Denormalize(values, key)
    \/ \E msd \in SingleSourceMaps, target \in {"SPY", "VIX"} :
          PrepareTrainingData(msd, target, 1, 1)

SpecNorm == Init /\ [][NormNext]_vars

\* forecasts denormalized on a processor whose entries come from
\* prepareTrainingData (all dimensions of a source) and from normalize (the
\* key of one dimension)
DenormNext ==
    \/ \E msd \in SingleSourceMaps \cup {RepricedSourceMap},
          target \in {"SPY", "VIX"} :
          PrepareTrainingData(msd, target, 1, 1)
    \/ Normalize(DimColumnRows, DimColumnKey)
    \/ \E prediction \in Predictions, target \in {"SPY", "VIX"} :
          DenormalizePrediction(prediction, target)
    \/ \E key \in {"SPY_dim0", DimColumnKey, "close"} :
          Denormalize(ForecastRows[1], key)

SpecDenorm == Init /\ [][DenormNext]_vars

-----------------------------------------------------------------------------
(***************************************************************************)
(* Claims about normalize and denormalize.                                 *)
(***************************************************************************)
\* a sequence of finite numbers
IsNumericSequence(sq) == \A i \in 1..Len(sq) : IsNum(sq[i]) /\ IsFinite(sq[i])

\* C9: normalize(values, key) writes the entry of key only when the key has
\* none: a normalize call for a key that has an entry leaves the entry as it
\* is and scales its values with the stored min and range.
C9_NormalizeWritesOnlyWhenAbsent ==
    [][(/\ dpCall'.op = "normalize"
        /\ HasKey(normalizers, NormalizeKey(dpCall'.key)))
          => LET stored == normalizers[NormalizeKey(dpCall'.key)]
             IN  /\ normalizers'[NormalizeKey(dpCall'.key)] = stored
                 /\ dpCall'.result
                       = [i \in 1..Len(dpCall'.values) |->
                             Div(Sub(dpCall'.values[i], stored.min),
                                 stored.range)]]_vars

\* C10: for a sequence v of numbers and any key k, denormalize(normalize(v,
\* k), k) is v, element by element, a constant v included.
C10_RoundTrip ==
    (/\ dpCall.op = "denormalize"
     /\ dpPrev.op = "normalize"
     /\ dpCall.key = dpPrev.key
     /\ dpCall.data = dpPrev.result
     /\ IsNumericSequence(dpPrev.data))
        => dpCall.result = dpPrev.data

\* C11: denormalize(values, key) for a key without stored parameters returns
\* the values it was given, does not raise, and leaves the normalizer map as
\* it was: no entry appears for the unknown key.
C11_DenormalizeMissReturnsInput ==
    [][(/\ dpCall'.op = "denormalize"
        /\ ~HasKey(normalizers, NormalizeKey(dpCall'.key)))
          => /\ dpCall'.warned
             /\ dpCall'.result = dpCall'.data
             /\ normalizers' = normalizers
             /\ ~HasKey(normalizers', NormalizeKey(dpCall'.key))]_vars

\* C11 witness: a processor that holds entries for other keys has returned a
\* non-empty argument of denormalize for a key it has no entry for.
C11_Witness ==
    /\ dpCall.op = "denormalize"
    /\ dpCall.warned
    /\ Len(dpCall.data) > 0
    /\ dpCall.result = dpCall.data
    /\ DOMAIN normalizers # {}
    /\ ~HasKey(normalizers, NormalizeKey(dpCall.key))

\* C12: preparing training data again recomputes the normalizer entries:
\* after a second prepareTrainingData call on the same processor, every entry
\* "{source}_dim{d}" of a source of that call holds the min and the max of the
\* new truncated series.
C12_RePrepareRecomputesEntries ==
    (/\ WindowCall
     /\ dpPrev.op = "prepareTrainingData"
     /\ SourceSet(dpCall.msd) # {}
     /\ ShortestLength(dpCall.msd) > 0)
        => \A s \in SourceSet(dpCall.msd), d \in 1..5 :
               EntryOfTruncatedSeries(s, d)

\* C13: denormalizePrediction(prediction, targetSource) returns one
\* {open, high, low, close} record per forecast step, in order; dimension d
\* (0..3) of a step is value * range + min under the key
\* "{targetSource}_dim{d}" when the key is stored and the value itself when
\* it is not, decided for every dimension apart; a missing key is no error.
C13_DenormalizePredictionPerDim ==
    dpCall.op = "denormalizePrediction"
        => LET r == dpCall.result
               p == dpCall.prediction
               field(rec, d) == CASE d = 0 -> rec.open
                                  [] d = 1 -> rec.high
                                  [] d = 2 -> rec.low
                                  [] d = 3 -> rec.close
           IN  /\ Len(r) = Len(p)
               /\ \A t \in 1..Len(r) :
                     /\ DOMAIN r[t] = {"open", "high", "low", "close"}
                     /\ \A d \in 0..3 :
                           LET key == dpCall.target \o "_dim" \o ToString(d)
                           IN  field(r[t], d)
                                  = IF key \in DOMAIN normalizers
                                      THEN Add(Mul(p[t][d + 1],
                                                   normalizers[key].range),
                                               normalizers[key].min)
                                      ELSE p[t][d + 1]

\* C13 witness: a forecast of two steps denormalized for a target that has a
\* finite entry for one of its four dimensions and none for another.
C13_Witness ==
    /\ dpCall.op = "denormalizePrediction"
    /\ Len(dpCall.result) = 2
    /\ \E d \in 0..3 :
          /\ HasKey(normalizers, FeatureKey(dpCall.target, d))
          /\ IsFinite(normalizers[FeatureKey(dpCall.target, d)].min)
          /\ normalizers[FeatureKey(dpCall.target, d)].range # Num(1)
    /\ \E d \in 0..3 : ~HasKey(normalizers, FeatureKey(dpCall.target, d))

-----------------------------------------------------------------------------
(***************************************************************************)
(* App: the handlers behind the target selection, the source checkboxes    *)
(* and the Load Data, Train and Predict buttons, in mock data mode.  The   *)
(* App owns one DataProcessor for its lifetime and a new SSMAttentionModel *)
(* for every training.  The lookback and forecast input fields are read    *)
(* by Load Data and again by Train; the user may edit them in between.     *)
(* Every training of the App has finite losses.                            *)
(* The model variables describe this.model, the model of the latest Train; *)
(* a run that a later Train took this.model from goes on as a displaced    *)
(* run until its train() promise settles.                                  *)
(***************************************************************************)
MaxLoads == 2

\* values of the lookbackDays and forecastDays input fields when Load Data
\* is clicked
LookbackDays == MaxLookback
ForecastDays == MaxForecast

\* values the user may have put in the two fields when Train is clicked
EditedLookbackDays == {1, MaxLookback}
EditedForecastDays == {1, MaxForecast}

\* value of the epochs field when Train is clicked
EpochsField == 1

\* the App loads `lookbackDays + 50` rows per source; the model loads
\* lookbackDays + ExtraRows rows, ExtraRows standing for the 50
ExtraRows == 4

\* options of the target selection, and the source checkboxes in document
\* order
TargetOptions == {"SPY", "VIX"}
Checkboxes == <<"SPY", "VIX">>

\* updateSelectedSources: the target first, then the other checked sources
UpdatedSources(target, checked) ==
    LET Other(c) == c \in checked /\ c # target
    IN  <<target>> \o SelectSeq(Checkboxes, Other)

\* the output of the network for one input window: config.forecast rows of
\* four values
NetworkOutput(forecast) ==
    [t \in 1..forecast |-> ForecastRows[((t - 1) % Len(ForecastRows)) + 1]]

\* getModelConfig: lookback, forecast and epochs from the form as it is when
\* Train is clicked, inputDim from this.trainingData, numSources from
\* this.selectedSources
GetModelConfig(a, lookback, forecast, epochs) ==
    [built |-> TRUE,
     lookback |-> lookback,
     forecast |-> forecast,
     epochs |-> epochs,
     inputDim |-> a.data.trainingData.featureCount,
     numSources |-> Len(a.selectedSources)]

\* model.fit checks X against the input [lookback, inputDim] and Y against
\* the output [forecast, 4] of the network and throws when a shape differs;
\* numSources only sizes a dense layer and is checked against nothing
ShapesFit(config, data) ==
    /\ config.lookback = data.lookback
    /\ config.forecast = data.forecast
    /\ config.inputDim = data.trainingData.featureCount

\* calculateMetrics: `if (!this.model || !this.model.trained) return;` then
\* valX = this.trainingData.X.slice(Math.floor(X.length * 0.8)), of the
\* trainingData the App holds when the training has ended
CalculateMetrics(a, t) ==
    IF ~a.hasModel \/ ~t
      THEN a.metrics
      ELSE LET X == a.data.trainingData.X
           IN  [made |-> TRUE,
                splitIdx |-> SplitIdx(Len(X)),
                valX |-> ArraySlice(X, SplitIdx(Len(X))),
                trainedOn |-> a.modelData]

\* change of the target selection: `this.targetSymbol = e.target.value`
AppSelectTarget(symbol) ==
    /\ app' = [app EXCEPT !.targetSymbol = symbol]
    /\ UNCHANGED modelVars
    /\ UNCHANGED dataVars

\* change of a source checkbox: `this.updateSelectedSources()`
\*   checked: the checkboxes checked after the change
AppChangeSources(checked) ==
    /\ app' = [app EXCEPT
                 !.selectedSources = UpdatedSources(app.targetSymbol, checked)]
    /\ UNCHANGED modelVars
    /\ UNCHANGED dataVars

\* loadData -> loadDataFromMock: update the selected sources, fetch the rows
\* of every selected source, prepare the training data for this.targetSymbol;
\* loadData disables only its own button and ends with
\* `trainBtn.disabled = false`
AppLoadData(lookbackDays, forecastDays, checked) ==
    /\ app.loads < MaxLoads
    /\ LET selected == UpdatedSources(app.targetSymbol, checked)
           totalDays == lookbackDays + ExtraRows
           msd == [order |-> selected,
                   series |-> [s \in Range(selected) |-> Series(s, totalDays)]]
           nz1 == WithAllEntries(normalizers, msd, ObjectKeys(msd.order), 1)
           result == PrepareResult(nz1, msd, app.targetSymbol, lookbackDays,
                                   forecastDays)
       IN  /\ normalizers' = nz1
           /\ dpCall' = [op |-> "prepareTrainingData", msd |-> msd,
                         target |-> app.targetSymbol,
                         lookback |-> lookbackDays, forecast |-> forecastDays,
                         result |-> result]
           /\ dpPrev' = dpCall
           /\ app' = [app EXCEPT
                        !.selectedSources = selected,
                        !.loads = app.loads + 1,
                        !.data = [loaded |-> TRUE, msd |-> msd,
                                  target |-> app.targetSymbol,
                                  lookback |-> lookbackDays,
                                  forecast |-> forecastDays,
                                  trainingData |-> result],
                        !.trainBtnDisabled = FALSE]
           /\ UNCHANGED modelVars

\* train, up to the first suspension of model.fit: disable the Train button,
\* read the configuration, dispose this.model, create and build a new model,
\* call its train() with this.trainingData.  The handler runs whenever the
\* button is enabled and there is trainingData; a run of the disposed model
\* that is suspended at a yield goes on as a displaced run.  When train()
\* rejects at once the finally block enables the button again.
AppTrain(epochs, lookback, forecast) ==
    /\ app.data.loaded
    /\ ~app.trainBtnDisabled
    /\ trainCalls < MaxTrainCalls
    /\ netCount < MaxBuilds
    /\ LET n == Len(app.data.trainingData.X)
           config == GetModelConfig(app, lookback, forecast, epochs)
           error == IF TrainCallError(n, FALSE) # "none"
                      THEN TrainCallError(n, FALSE)
                      ELSE IF ~ShapesFit(config, app.data) THEN "fit"
                      ELSE "none"
       IN  /\ run' = [net |-> netCount + 1, epochs |-> epochs,
                      batches |-> NumBatches(n), epoch |-> 0, batch |-> 0,
                      historyStart |-> 0, netDisposed |-> FALSE,
                      diverged |-> FALSE, built |-> FALSE,
                      error |-> error,
                      callbacks |-> <<>>]
           /\ IF error # "none"
                THEN /\ pc' = "idle"
                     /\ lastCall' = Call("train", "rejected")
                ELSE /\ pc' = "batch"
                     /\ lastCall' = Call("train", "started")
           /\ app' = [app EXCEPT
                        !.hasModel = TRUE,
                        !.modelData = app.data,
                        !.config = config,
                        !.trainBtnDisabled = (error = "none"),
                        !.displaced = IF pc # "idle" THEN app.displaced + 1
                                                     ELSE app.displaced]
    /\ model' = netCount + 1
    /\ netCount' = netCount + 1
    /\ weights' = "initial"
    /\ trained' = FALSE
    /\ trainingHistory' = <<>>
    /\ trainCalls' = trainCalls + 1
    /\ UNCHANGED dataVars

\* train, after `await this.model.train(...)` has resolved:
\* calculateMetrics, then the finally block enables the Train button
AppTrainEnd ==
    /\ TrainEnds(FALSE)
    /\ app' = [app EXCEPT
                 !.metrics = CalculateMetrics(app, trained'),
                 !.trainBtnDisabled = FALSE]
    /\ UNCHANGED dataVars

\* the train() promise of a displaced run settles.  Its network was disposed
\* under it: the fit either raises (catch, finally) or reaches its end
\* (calculateMetrics on this.model, finally); both enable the Train button.
AppDisplacedEnd(raises) ==
    /\ app.displaced > 0
    /\ app' = [app EXCEPT
                 !.displaced = app.displaced - 1,
                 !.metrics = IF raises THEN app.metrics
                                       ELSE CalculateMetrics(app, trained),
                 !.trainBtnDisabled = FALSE]
    /\ UNCHANGED modelVars
    /\ UNCHANGED dataVars

\* predict: the last sample of this.trainingData goes through the model and
\* the output is denormalized for this.targetSymbol.  A window that does not
\* fit the input of the network makes model.predict raise; the handler
\* catches and logs it.
AppPredict ==
    /\ app.hasModel
    /\ trained
    /\ Len(app.data.trainingData.X) > 0
    /\ LET X == app.data.trainingData.X
           lastSequence == X[Len(X)]
           fits == /\ app.data.lookback = app.config.lookback
                   /\ app.data.trainingData.featureCount = app.config.inputDim
           normalizedPrediction == NetworkOutput(app.config.forecast)
           prediction == DenormalizePredictionResult(normalizers,
                                                     normalizedPrediction,
                                                     app.targetSymbol)
       IN  IF fits
             THEN /\ lastCall' = Call("predict",
                                      PredictOutcome(model, trained))
                  /\ dpCall' = [op |-> "denormalizePrediction",
                                prediction |-> normalizedPrediction,
                                target |-> app.targetSymbol,
                                result |-> prediction]
                  /\ dpPrev' = dpCall
                  /\ app' = [app EXCEPT
                               !.predict = [made |-> TRUE,
                                            sequence |-> lastSequence,
                                            symbol |-> app.targetSymbol,
                                            result |-> prediction,
                                            data |-> app.data,
                                            modelData |-> app.modelData]]
             ELSE /\ lastCall' = Call("predict", "error")
                  /\ UNCHANGED <<dpCall, dpPrev, app>>
    /\ UNCHANGED normalizers
    /\ UNCHANGED <<model, netCount, weights, trained, trainingHistory, pc,
                   run, trainCalls>>

AppNext ==
    \/ \E symbol \in TargetOptions : AppSelectTarget(symbol)
    \/ \E checked \in SUBSET TargetOptions : AppChangeSources(checked)
    \/ \E checked \in SUBSET TargetOptions :
          AppLoadData(LookbackDays, ForecastDays, checked)
    \/ \E lookback \in EditedLookbackDays, forecast \in EditedForecastDays :
          AppTrain(EpochsField, lookback, forecast)
    \/ FitBatch(FALSE)
    \/ OnEpochEnd("finite", FALSE)
    \/ AppTrainEnd
    \/ \E raises \in BOOLEAN : AppDisplacedEnd(raises)
    \/ AppPredict

SpecApp == Init /\ [][AppNext]_vars

-----------------------------------------------------------------------------
(***************************************************************************)
(* Claims about the forecast the App makes.                                *)
(***************************************************************************)
\* C14: the forecast is denormalized with the normalizer keys of the target
\* the training targets were prepared for: the symbol App.predict passes to
\* denormalizePrediction is the targetSymbol that prepareTrainingData was
\* given for the data the current model was trained on, also when the target
\* selection was changed between Load Data and Predict.
C14_ForecastDenormalizedForTrainedTarget ==
    app.predict.made => app.predict.symbol = app.predict.modelData.target

\* C15: the window App.predict passes to the model is the most recent one:
\* the last `lookback` rows, minLength - lookback .. minLength - 1, of the
\* aligned normalized series.
C15_ForecastFromMostRecentWindow ==
    app.predict.made
        => LET data == app.predict.data
               keys == data.trainingData.sources
               minLength == ShortestLength(data.msd)
               sequence == app.predict.sequence
               at(s, pos, d) ==
                   LET e == normalizers[FeatureKey(s, d - 1)]
                   IN  Div(Sub(RawFeature(data.msd.series[s][pos + 1], d),
                               e.min), e.range)
           IN  /\ Len(sequence) = data.lookback
               /\ \A t \in 1..Len(sequence), k \in 1..Len(keys), d \in 1..5 :
                     sequence[t][(k - 1) * 5 + d]
                        = at(keys[k], minLength - data.lookback + (t - 1), d)

-----------------------------------------------------------------------------
(***************************************************************************)
(* SSMAttentionModel.getSourceAttentionWeights                             *)
(***************************************************************************)
\* values Math.sin takes on a finite argument, as far as the model tells
\* them apart
SinValues == {Num(0 - 1), Num(0), Num(1)}

\* `seed`: the loss of the last record of the history, 0.5 without one
SeedOf(history) ==
    IF Len(history) > 0 THEN history[Len(history)].loss ELSE "finite"

\* Math.sin(seed * (i + 1) * 10): NaN for a seed that is NaN or infinite,
\* else the value drawn for index i
SinOfSeed(seed, sines, i) == IF seed = "nonfinite" THEN NaN ELSE sines[i]

RECURSIVE SumFrom(_, _, _)
\* values.reduce((a, b) => a + b, 0)
SumFrom(values, i, acc) ==
    IF i > Len(values) THEN acc
    ELSE SumFrom(values, i + 1, Add(acc, values[i]))

\* the weights before normalisation:
\* Math.max(0.05, 1 / n + Math.sin(...) * 0.2)
RawWeights(n, seed, sines) ==
    [i \in 1..n |->
        MathMax(<<Fin(1, 20),
                  Add(Fin(1, n), Mul(SinOfSeed(seed, sines, i), Fin(1, 5)))>>)]

AttentionWeights(n, isTrained, history, sines) ==
    IF ~isTrained THEN [i \in 1..n |-> Fin(1, n)]
    ELSE LET raw == RawWeights(n, SeedOf(history), sines)
             sum == SumFrom(raw, 1, Num(0))
         IN  [i \in 1..n |-> Div(raw[i], sum)]

\* sourceNames arguments: one to MaxSources names
SourceNameLists ==
    {SubSeq(<<"SPY", "VIX", "TLT", "GLD">>, 1, n) : n \in 1..MaxSources}

\* getSourceAttentionWeights(sourceNames)
GetSourceAttentionWeights(sourceNames, sines) ==
    /\ lastCall' = [op |-> "getSourceAttentionWeights",
                    names |-> sourceNames,
                    result |-> AttentionWeights(Len(sourceNames), trained,
                                                trainingHistory, sines)]
    /\ UNCHANGED <<model, netCount, weights, trained, trainingHistory, pc, run,
                   trainCalls>>
    /\ UNCHANGED dataVars
    /\ UNCHANGED app

\* the life cycle of a model whose train() calls get the largest training
\* set and callbacks that do not raise, with getSourceAttentionWeights called
\* at any point
AttentionNext ==
    \/ Build
    \/ Dispose
    \/ \E e \in 1..MaxEpochs : TrainCall(MaxSamples, e, FALSE)
    \/ \E raises \in BOOLEAN : FitBatch(raises)
    \/ \E loss \in LossValues : OnEpochEnd(loss, FALSE)
    \/ OnTrainEnd(FALSE)
    \/ \E sourceNames \in SourceNameLists :
          \E sines \in [1..Len(sourceNames) -> SinValues] :
              GetSourceAttentionWeights(sourceNames, sines)

SpecAttention == Init /\ [][AttentionNext]_vars

\* C16: for non-empty sourceNames and any state of the model,
\* getSourceAttentionWeights returns as many weights as there are names, all
\* non-negative and summing to 1; on a model that is not trained every
\* weight is 1 / len(sourceNames).
C16_AttentionWeightsAreADistribution ==
    lastCall.op = "getSourceAttentionWeights"
        => LET w == lastCall.result
               n == Len(lastCall.names)
           IN  /\ Len(w) = n
               /\ \A i \in 1..n : IsFinite(w[i]) /\ LessEq(Num(0), w[i])
               /\ SumFrom(w, 1, Num(0)) = Num(1)
               /\ ~trained => \A i \in 1..n : w[i] = Fin(1, n)

-----------------------------------------------------------------------------
(***************************************************************************)
(* SSMAttentionModel.calculateDirectionAccuracy and calculateCorrelation:  *)
(* functions of their arguments, applied to forecasts and targets of the   *)
(* shape [samples][steps][4].                                              *)
(***************************************************************************)
MaxMetricValues == 2

\* rows [open, high, low, close]: a rising, a falling and a flat one, the
\* flat one with four equal values
MetricRows ==
    {<<Num(1), Num(3), Num(0), Num(2)>>,
     <<Num(2), Num(3), Num(0), Num(1)>>,
     <<Num(1), Num(1), Num(1), Num(1)>>}

\* the shapes [samples][steps] with at most MaxMetricValues rows
MetricShapes ==
    {sh \in (0..MaxMetricValues) \X (1..MaxMetricValues) :
        sh[1] * sh[2] <= MaxMetricValues}

MetricArrays(sh) == [1..sh[1] -> [1..sh[2] -> MetricRows]]

\* `predictions[i][t][3] > predictions[i][t][0]`
RowDirection(row) == Less(row[1], row[4])

\* the (sample, step) pairs the two loops visit
StepPairs(predictions) ==
    UNION {{<<i, t>> : t \in 1..Len(predictions[i])} :
              i \in 1..Len(predictions)}

DirectionAccuracy(predictions, actuals) ==
    LET total == Cardinality(StepPairs(predictions))
        correct == Cardinality({pr \in StepPairs(predictions) :
                       RowDirection(predictions[pr[1]][pr[2]])
                           = RowDirection(actuals[pr[1]][pr[2]])})
    IN  IF total > 0 THEN Fin(correct, total) ELSE Num(0)

\* calculateDirectionAccuracy(predictions, actuals)
CalculateDirectionAccuracy(predictions, actuals) ==
    /\ lastCall' = [op |-> "calculateDirectionAccuracy",
                    predictions |-> predictions, actuals |-> actuals,
                    result |-> DirectionAccuracy(predictions, actuals)]
    /\ UNCHANGED <<model, netCount, weights, trained, trainingHistory, pc, run,
                   trainCalls>>
    /\ UNCHANGED dataVars
    /\ UNCHANGED app

\* `.flat(2)`
Flat2(array) == Flatten(Flatten(array))

\* The arithmetic of the model is exact, the arithmetic of the code is
\* binary64.  For the mean the difference is kept: the rounded quotient
\* sum / n is the exact mean times (1 + e), e being 0 or plus or minus one
\* rounding unit, 1 / RoundingUnit in the model.  The sum of 1, 2 or 4 equal
\* values and its quotient are exact; ((0.1 + 0.1) + 0.1) / 3 is not 0.1.
RoundingUnit == 8
RoundingErrors == {Num(0), Fin(1, RoundingUnit), Fin(0 - 1, RoundingUnit)}
MeanErrors(n) == IF n \in {1, 2, 4} THEN {Num(0)} ELSE RoundingErrors

\* `flat.reduce((a, b) => a + b, 0) / n`
MeanOf(flat, err) ==
    Mul(Div(SumFrom(flat, 1, Num(0)), Num(Len(flat))), Add(Num(1), err))

\* the sum over i of (x[i] - meanX) * (y[i] - meanY)
RECURSIVE SumOfProducts(_, _, _, _, _)
SumOfProducts(x, meanX, y, meanY, i) ==
    IF i > Len(x) THEN Num(0)
    ELSE Add(Mul(Sub(x[i], meanX), Sub(y[i], meanY)),
             SumOfProducts(x, meanX, y, meanY, i + 1))

\* a result of calculateCorrelation, sign * sqrt(square)
CorrelationValue(sign, square) == [sign |-> sign, square |-> square]

\* numerator / (Math.sqrt(denomPred) * Math.sqrt(denomActual)) when the
\* product of the roots is positive, else 0
Correlation(predictions, actuals, errPred, errActual) ==
    LET predFlat == Flat2(predictions)
        actualFlat == Flat2(actuals)
        n == Len(predFlat)
        meanPred == MeanOf(predFlat, errPred)
        meanActual == MeanOf(actualFlat, errActual)
        numerator == SumOfProducts(predFlat, meanPred, actualFlat,
                                   meanActual, 1)
        denomPred == SumOfProducts(predFlat, meanPred, predFlat, meanPred, 1)
        denomActual == SumOfProducts(actualFlat, meanActual, actualFlat,
                                     meanActual, 1)
    IN  IF n = 0 THEN CorrelationValue(0, Num(0))
        ELSE IF Less(Num(0), denomPred) /\ Less(Num(0), denomActual)
          THEN CorrelationValue(SignOf(numerator),
                                Mul(Div(numerator, denomPred),
                                    Div(numerator, denomActual)))
          ELSE CorrelationValue(0, Num(0))

\* calculateCorrelation(predictions, actuals)
CalculateCorrelation(predictions, actuals, errPred, errActual) ==
    /\ lastCall' = [op |-> "calculateCorrelation",
                    predictions |-> predictions, actuals |-> actuals,
                    result |-> Correlation(predictions, actuals, errPred,
                                           errActual)]
    /\ UNCHANGED <<model, netCount, weights, trained, trainingHistory, pc, run,
                   trainCalls>>
    /\ UNCHANGED dataVars
    /\ UNCHANGED app

\* one call of a metric on a model just constructed
MetricsNext ==
    \/ \E sh \in MetricShapes :
          \E predictions \in MetricArrays(sh), actuals \in MetricArrays(sh) :
              /\ lastCall.op = "new"
              /\ CalculateDirectionAccuracy(predictions, actuals)
    \/ \E sh \in MetricShapes :
          \E predictions \in MetricArrays(sh), actuals \in MetricArrays(sh) :
              \E errPred \in MeanErrors(Len(Flat2(predictions))),
                 errActual \in MeanErrors(Len(Flat2(actuals))) :
                  /\ lastCall.op = "new"
                  /\ CalculateCorrelation(predictions, actuals, errPred,
                                          errActual)

SpecMetrics == Init /\ [][MetricsNext]_vars

\* sign(close - open) of a row, in {-1, 0, +1}
DirectionSign(row) ==
    IF Less(row[1], row[4]) THEN 1 ELSE IF row[1] = row[4] THEN 0 ELSE 0 - 1

\* C17: calculateDirectionAccuracy returns correct / total, total counting
\* every (sample, step) pair and a pair being correct exactly when
\* sign(close - open), in {-1, 0, +1}, of the prediction equals that of the
\* actual; 0 when total is 0; a value in [0, 1]; exactly 1 for identical
\* arguments.
C17_DirectionAccuracyBySign ==
    lastCall.op = "calculateDirectionAccuracy"
        => LET p == lastCall.predictions
               a == lastCall.actuals
               pairs == UNION {{<<i, t>> : t \in 1..Len(p[i])} :
                                  i \in 1..Len(p)}
               agree == {pr \in pairs :
                            DirectionSign(p[pr[1]][pr[2]])
                                = DirectionSign(a[pr[1]][pr[2]])}
               r == lastCall.result
           IN  /\ pairs # {} => r = Fin(Cardinality(agree), Cardinality(pairs))
               /\ pairs = {} => r = Num(0)
               /\ LessEq(Num(0), r) /\ LessEq(r, Num(1))
               /\ (p = a /\ pairs # {}) => r = Num(1)

\* all values of a flattened series are equal
IsConstantSeries(flat) == \A i, j \in 1..Len(flat) : flat[i] = flat[j]

\* C18: calculateCorrelation returns 0, not NaN and not an error, whenever
\* one of the flattened series has zero variance (predictions and actuals
\* being the same constant included) or the arguments are empty.
C18_CorrelationZeroWithoutVariance ==
    (/\ lastCall.op = "calculateCorrelation"
     /\ \/ IsConstantSeries(Flat2(lastCall.predictions))
        \/ IsConstantSeries(Flat2(lastCall.actuals)))
        => lastCall.result = CorrelationValue(0, Num(0))

-----------------------------------------------------------------------------
(***************************************************************************)
(* DataProcessor.parseYFinanceCSV.  A CSV text is its header line, a       *)
(* sequence of column names, and the lines after it, each a sequence of    *)
(* cells (the empty sequence is a blank line).  A cell is a record         *)
(* [kind, value]:                                                          *)
(*   "number"  a decimal numeral, "101.5"       "text"    "abc"            *)
(*   "prefix"  a numeral and more, "101.5x"     "empty"   ""               *)
(*   "date"    an ISO date, "2024-01-02"        "slash"   "1/2/2024"       *)
(* value is the number, or the day the date names.                         *)
(***************************************************************************)
MaxRows == 3

Cell(kind, value) == [kind |-> kind, value |-> value]

\* values[idx], undefined (an empty cell, to parseFloat) past the end
CellAt(values, idx) ==
    IF idx \in 1..Len(values) THEN values[idx] ELSE Cell("empty", 0)

\* parseFloat: the leading numeral of the text, NaN when there is none
ParseFloat(cell) ==
    IF cell.kind \in {"number", "prefix"} THEN Num(cell.value) ELSE NaN

\* `parseInt(values[volumeIdx]) || 0`
ParseIntOrZero(cell) ==
    IF cell.kind \in {"number", "prefix"} THEN Num(cell.value) ELSE Num(0)

\* h.trim().toLowerCase() of the column names the headers below use
LowerCase(name) ==
    CASE name = "Date" -> "date"
      [] name = "Open" -> "open"
      [] name = "High" -> "high"
      [] name = "Low" -> "low"
      [] name = "Close" -> "close"
      [] name = "Adj Close" -> "adj close"
      [] name = "Volume" -> "volume"
      [] name = "Vol" -> "vol"
      [] name = "Price" -> "price"
      [] name = "Symbol" -> "symbol"
      [] OTHER -> name

HeaderNames(headerLine) ==
    [j \in 1..Len(headerLine) |-> LowerCase(headerLine[j])]

\* header.indexOf(name), counted from 1; 0 stands for -1
IndexOf(header, name) ==
    IF \E j \in 1..Len(header) : header[j] = name
        THEN CHOOSE j \in 1..Len(header) :
                 /\ header[j] = name
                 /\ \A k \in 1..(j - 1) : header[k] # name
        ELSE 0

\* findColumnIndex(names): the column of the first name the header has
RECURSIVE FindColumnFrom(_, _, _)
FindColumnFrom(header, names, i) ==
    IF i > Len(names) THEN 0
    ELSE IF IndexOf(header, names[i]) # 0 THEN IndexOf(header, names[i])
    ELSE FindColumnFrom(header, names, i + 1)

FindColumnIndex(header, names) == FindColumnFrom(header, names, 1)

\* the names findColumnIndex is called with for each column
ColumnNames(column) ==
    CASE column = "date" -> <<"date", "datetime", "time", "timestamp">>
      [] column = "open" -> <<"open", "open price">>
      [] column = "high" -> <<"high", "high price">>
      [] column = "low" -> <<"low", "low price">>
      [] column = "close" -> <<"close", "close price", "adj close",
                               "adjusted close">>
      [] column = "volume" -> <<"volume", "vol">>

\* dateIdx, openIdx, highIdx, lowIdx, closeIdx, volumeIdx
ColumnIndex(header, column) == FindColumnIndex(header, ColumnNames(column))

\* `openIdx === -1 || highIdx === -1 || lowIdx === -1 || closeIdx === -1`
MissingRequiredColumn(header) ==
    \/ ColumnIndex(header, "open") = 0
    \/ ColumnIndex(header, "high") = 0
    \/ ColumnIndex(header, "low") = 0
    \/ ColumnIndex(header, "close") = 0

\* csvContent.trim(): the blank lines at the end of the text are dropped
RECURSIVE TrimLines(_)
TrimLines(rows) ==
    IF rows # <<>> /\ rows[Len(rows)] = <<>>
        THEN TrimLines(SubSeq(rows, 1, Len(rows) - 1))
        ELSE rows

\* the day `new Date()` gives when a line without a date is parsed
Today == 20

\* the floor of the four prices, `Math.max(0.01, open)`
PriceFloor == Fin(1, 100)

\* `isNaN(open) || isNaN(high) || isNaN(low) || isNaN(close)`
RowIsInvalid(header, values) ==
    \/ IsNaN(ParseFloat(CellAt(values, ColumnIndex(header, "open"))))
    \/ IsNaN(ParseFloat(CellAt(values, ColumnIndex(header, "high"))))
    \/ IsNaN(ParseFloat(CellAt(values, ColumnIndex(header, "low"))))
    \/ IsNaN(ParseFloat(CellAt(values, ColumnIndex(header, "close"))))

\* the day of the record of line i (the header is line 0): the date cell,
\* an m/d/y date rewritten as y-m-d, or today minus the lines that follow
RowDay(header, values, i, lineCount) ==
    LET dateIdx == ColumnIndex(header, "date")
        cell == CellAt(values, dateIdx)
    IN  IF dateIdx # 0 /\ cell.kind # "empty"
            THEN cell.value
            ELSE Today - (lineCount - 1 - i)

\* the record data.push() adds for line i
CandleOfRow(header, values, i, lineCount) ==
    LET price(column) ==
            MathMax(<<PriceFloor,
                      ParseFloat(CellAt(values, ColumnIndex(header, column)))>>)
        volumeIdx == ColumnIndex(header, "volume")
        volume == IF volumeIdx # 0
                      THEN ParseIntOrZero(CellAt(values, volumeIdx))
                      ELSE Num(0)
    IN  [timestamp |-> RowDay(header, values, i, lineCount),
         open |-> price("open"), high |-> price("high"),
         low |-> price("low"), close |-> price("close"),
         volume |-> MathMax(<<Num(0), volume>>)]

\* the loop over the lines after the header: blank lines and lines with an
\* invalid price are passed over, the others add a record to `data`
RECURSIVE ParseFrom(_, _, _, _)
ParseFrom(header, rows, i, data) ==
    IF i > Len(rows) THEN data
    ELSE IF rows[i] = <<>> \/ RowIsInvalid(header, rows[i])
        THEN ParseFrom(header, rows, i + 1, data)
    ELSE ParseFrom(header, rows, i + 1,
                   Append(data, CandleOfRow(header, rows[i], i,
                                            1 + Len(rows))))

\* data.sort((a, b) => a.timestamp - b.timestamp), a stable sort
InsertByTimestamp(sorted, rec) ==
    LET before == Cardinality({j \in 1..Len(sorted) :
                                  sorted[j].timestamp <= rec.timestamp})
    IN  SubSeq(sorted, 1, before) \o <<rec>>
            \o SubSeq(sorted, before + 1, Len(sorted))

RECURSIVE SortFrom(_, _, _)
SortFrom(data, i, sorted) ==
    IF i > Len(data) THEN sorted
    ELSE SortFrom(data, i + 1, InsertByTimestamp(sorted, data[i]))

SortByTimestamp(data) == SortFrom(data, 1, <<>>)

\* parseYFinanceCSV(csvContent): the records, or the Error it throws
ParseYFinanceCSVResult(headerLine, lines) ==
    LET rows == TrimLines(lines)
        header == HeaderNames(headerLine)
        data == ParseFrom(header, rows, 1, <<>>)
    IN  IF 1 + Len(rows) < 2
            THEN [status |-> "Error", message |-> "insufficient data"]
        ELSE IF MissingRequiredColumn(header)
            THEN [status |-> "Error", message |-> "missing columns"]
        ELSE IF Len(data) = 0
            THEN [status |-> "Error", message |-> "no data row parsed"]
        ELSE [status |-> "ok", data |-> SortByTimestamp(data)]

ParseYFinanceCSV(headerLine, lines) ==
    /\ dpCall' = [op |-> "parseYFinanceCSV", header |-> headerLine,
                  lines |-> lines,
                  result |-> ParseYFinanceCSVResult(headerLine, lines)]
    /\ dpPrev' = dpCall
    /\ UNCHANGED normalizers
    /\ UNCHANGED modelVars
    /\ UNCHANGED app

\* the files parsed: four header lines, and up to MaxRows lines of these
\* kinds after the header
CsvHeaders ==
    {<<"Date", "Open", "High", "Low", "Close", "Volume">>,
     <<"Date", "Open", "High", "Low", "Adj Close", "Vol">>,
     <<"Symbol", "Open", "High", "Low", "Close", "Volume">>,
     <<"Date", "Price", "Volume">>}

CsvLine(date, open, high, low, close, volume) ==
    <<date, open, high, low, close, volume>>

CsvLines ==
    {<<>>,
     CsvLine(Cell("date", 2), Cell("number", 100), Cell("number", 102),
             Cell("number", 99), Cell("number", 101), Cell("number", 5)),
     CsvLine(Cell("slash", 1), Cell("number", 101), Cell("number", 103),
             Cell("number", 0), Cell("number", 102), Cell("text", 0)),
     CsvLine(Cell("empty", 0), Cell("number", 100), Cell("number", 100),
             Cell("number", 100), Cell("number", 100), Cell("number", 0 - 1)),
     CsvLine(Cell("date", 3), Cell("text", 0), Cell("number", 102),
             Cell("number", 99), Cell("number", 101), Cell("number", 5)),
     CsvLine(Cell("date", 3), Cell("number", 100), Cell("number", 102),
             Cell("number", 99), Cell("prefix", 101), Cell("number", 5)),
     <<Cell("date", 3), Cell("number", 100)>>}

CsvBodies == UNION {[1..n -> CsvLines] : n \in 0..MaxRows}

\* one parseYFinanceCSV call on a DataProcessor just constructed
CsvNext ==
    \E headerLine \in CsvHeaders, lines \in CsvBodies :
        /\ dpCall.op = "new"
        /\ ParseYFinanceCSV(headerLine, lines)

SpecCsv == Init /\ [][CsvNext]_vars

\* the open, high, low and close cells of a line are all numerals
IsNumericRow(header, values) ==
    \A column \in {"open", "high", "low", "close"} :
        CellAt(values, ColumnIndex(header, column)).kind = "number"

\* C20: for a text that has the required header columns and at least one
\* line after the header, parseYFinanceCSV does not raise, whatever the
\* number of valid lines: the lines with a non-numeric open, high, low or
\* close are skipped and the result has one record per other line.
C20_InvalidRowsSkippedWithoutError ==
    (/\ dpCall.op = "parseYFinanceCSV"
     /\ ~MissingRequiredColumn(HeaderNames(dpCall.header))
     /\ TrimLines(dpCall.lines) # <<>>)
        => LET header == HeaderNames(dpCall.header)
               rows == TrimLines(dpCall.lines)
               valid == {i \in 1..Len(rows) :
                            rows[i] # <<>> /\ IsNumericRow(header, rows[i])}
           IN  /\ dpCall.result.status = "ok"
               /\ Len(dpCall.result.data) = Cardinality(valid)
-----------------------------------------------------------------------------
(***************************************************************************)
(* DataProcessor.generateMockData(symbol, days, params).  The values       *)
(* Math.random() returns are arguments of the model: one record            *)
(* [shock, high, low, volume] of draws for each day.                       *)
(***************************************************************************)
MaxDays == 2

\* `params.basePrice || 100`: 0, NaN and a missing value give the default
OrDefault(x, default) ==
    IF IsNaN(x) \/ (IsFinite(x) /\ x.n = 0) THEN default ELSE x

DefaultBasePrice == Num(100)
DefaultVolatility == Fin(2, 100)
DefaultDrift == Fin(1, 10000)

\* Math.abs
MathAbs(a) == IF a.n < 0 THEN Neg(a) ELSE a

\* Math.floor
MathFloor(a) == IF IsFinite(a) THEN Num(a.n \div a.d) ELSE a

\* (mutant) the price stored as it was computed
ClampPrice_None(v) == v

\* `Math.max(0.01, open)`
ClampPrice(v) == MathMax(<<PriceFloor, v>>)

\* one iteration of the loop: the record pushed for day i (from 0), `close`
\* being the price the next day starts from
MockDay(price, volatility, drift, days, i, r) ==
    LET randomShock == Mul(Mul(Sub(r.shock, Fin(1, 2)), Num(2)), volatility)
        dailyReturn == Add(drift, randomShock)
        open == price
        change == Mul(price, dailyReturn)
        spread(draw) == Mul(MathAbs(change), Add(Num(1), Mul(draw, Fin(1, 2))))
        high == Add(open, spread(r.high))
        low == Sub(open, spread(r.low))
        close == Add(open, change)
        volume == MathFloor(Mul(Num(VolumeScale), Add(Fin(1, 2), r.volume)))
    IN  [next |-> close,
         candle |-> [timestamp |-> Today - days + i,
                     open |-> ClampPrice(open), high |-> ClampPrice(high),
                     low |-> ClampPrice(low), close |-> ClampPrice(close),
                     volume |-> volume]]

RECURSIVE MockFrom(_, _, _, _, _, _, _)
MockFrom(price, volatility, drift, days, draws, i, data) ==
    IF i >= days THEN data
    ELSE LET day == MockDay(price, volatility, drift, days, i, draws[i + 1])
         IN  MockFrom(day.next, volatility, drift, days, draws, i + 1,
                      Append(data, day.candle))

GenerateMockDataResult(days, params, draws) ==
    MockFrom(OrDefault(params.basePrice, DefaultBasePrice),
             OrDefault(params.volatility, DefaultVolatility),
             OrDefault(params.drift, DefaultDrift),
             days, draws, 0, <<>>)

GenerateMockData(days, params, draws) ==
    /\ dpCall' = [op |-> "generateMockData", days |-> days, params |-> params,
                  result |-> GenerateMockDataResult(days, params, draws)]
    /\ dpPrev' = dpCall
    /\ UNCHANGED normalizers
    /\ UNCHANGED modelVars
    /\ UNCHANGED app

\* params: a base price left out (0), small, negative or infinite; a
\* volatility below and above 1; a drift of either sign
MockParams ==
    [basePrice : {Num(0), Fin(1, 1000), Num(0 - 5), PosInf},
     volatility : {Fin(1, 2), Num(2)},
     drift : {Fin(1, 4), Fin(0 - 1, 4)}]

\* Math.random() is in [0, 1)
MockDraws ==
    [shock : {Num(0), Fin(1, 2), Fin(3, 4)}, high : {Num(0), Fin(1, 2)},
     low : {Num(0), Fin(1, 2)}, volume : {Fin(1, 4)}]

\* one generateMockData call on a DataProcessor just constructed
MockNext ==
    \E days \in 1..MaxDays, params \in MockParams :
        \E draws \in [1..days -> MockDraws] :
            /\ dpCall.op = "new"
            /\ GenerateMockData(days, params, draws)

SpecMock == Init /\ [][MockNext]_vars

IsPositive(v) == ~IsNaN(v) /\ Less(Num(0), v)

\* the candle invariants: prices positive, high >= low, volume >= 0
CandleInvariant(c) ==
    /\ IsPositive(c.open) /\ IsPositive(c.high)
    /\ IsPositive(c.low) /\ IsPositive(c.close)
    /\ LessEq(c.low, c.high)
    /\ ~IsNaN(c.volume) /\ LessEq(Num(0), c.volume)

\* `days` records that satisfy the candle invariants, timestamps ascending
MockResultIsValid(days, data) ==
    /\ Len(data) = days
    /\ \A i \in 1..Len(data) : CandleInvariant(data[i])
    /\ \A i \in 1..(Len(data) - 1) : data[i].timestamp < data[i + 1].timestamp

\* C21 as claimed: for any days >= 1 and any base price, volatility and
\* drift, generateMockData returns exactly `days` records in ascending
\* timestamp order, each with high >= low, open, high, low, close > 0 and
\* volume >= 0.
C21_MockCandlesValid ==
    dpCall.op = "generateMockData"
        => MockResultIsValid(dpCall.days, dpCall.result)

\* C21 amended: the same, for a finite base price, volatility and drift (a
\* non-finite parameter turns `open - |change| * ...` into NaN, which
\* Math.max(0.01, NaN) does not clamp).
C21_MockCandlesValidForFiniteParams ==
    (/\ dpCall.op = "generateMockData"
     /\ IsFinite(dpCall.params.basePrice)
     /\ IsFinite(dpCall.params.volatility)
     /\ IsFinite(dpCall.params.drift))
        => MockResultIsValid(dpCall.days, dpCall.result)

\* C21 witness: finite parameters, two days or more, and a price that fell
\* to zero or below and was clamped to the floor.
C21_Witness ==
    /\ dpCall.op = "generateMockData"
    /\ IsFinite(dpCall.params.basePrice)
    /\ dpCall.days >= 2
    /\ \E i \in 1..Len(dpCall.result) : dpCall.result[i].close = PriceFloor

-----------------------------------------------------------------------------
\* a train() call is suspended at one of its yields
TrainingInProgress == pc # "idle"

\* C22: while a train() call is in progress on the model, predict and
\* batchPredict on that model do not succeed, in a first training run and in
\* a re-training of a model that is already Trained.
C22_NoForecastWhileTraining ==
    (/\ lastCall.op \in {"predict", "batchPredict"}
     /\ TrainingInProgress
     /\ run.net = model)
        => lastCall.result = "error"

\* a step of the train() call in progress: it resumes from a yield and runs
\* to the next one (or to the end of the call)
FitStep ==
    /\ pc # "idle"
    /\ pc' # pc \/ run'.batch # run.batch \/ run'.epoch # run.epoch

\* C23: during train() the run is suspended after every batch and after
\* every epoch and nowhere else: each step of the run does one batch update
\* and yields, or ends the epoch (after its last batch) and yields, or ends
\* the run; batches are done in order within the epoch and epochs in order.
C23_YieldAfterEveryBatchAndEpoch ==
    /\ [](/\ pc \in {"idle", "batch", "epochEnd", "trainEnd"}
          /\ pc = "batch" => run.batch < run.batches
          /\ pc = "epochEnd" => run.batch = run.batches
          /\ pc = "trainEnd" => /\ run.batch = run.batches
                                /\ run.epoch + 1 = run.epochs)
    /\ [][FitStep =>
            \/ pc' = "idle"
            \/ /\ pc = "batch"
               /\ run'.batch = run.batch + 1
               /\ run'.epoch = run.epoch
               /\ pc' = IF run'.batch = run.batches THEN "epochEnd" ELSE "batch"
            \/ /\ pc = "epochEnd"
               /\ Len(trainingHistory') = Len(trainingHistory) + 1
               /\ IF run.epoch + 1 < run.epochs
                    THEN /\ run'.epoch = run.epoch + 1
                         /\ run'.batch = 0
                         /\ pc' = "batch"
                    ELSE /\ run'.epoch = run.epoch
                         /\ run'.batch = run.batch
                         /\ pc' = "trainEnd"]_vars

\* C23 witness: the run is suspended between the two batches of its second
\* epoch.
C23_Witness ==
    /\ pc = "batch"
    /\ run.epoch = 1
    /\ run.batch = 1
    /\ run.batches = 2

-----------------------------------------------------------------------------
(***************************************************************************)
(* The split and the batch size of train(), and the slice of               *)
(* App.calculateMetrics, on training data of n samples.  The samples are   *)
(* named by their position in X, from 0.                                   *)
(***************************************************************************)
MaxSplitSamples == 130

SampleIds(n) == [i \in 1..n |-> i - 1]

\* train(): splitIdx, xTrain, xVal and batchSize; calculateMetrics(): valX
TrainSplit(n) ==
    LET X == SampleIds(n)
    IN  /\ lastCall' = [op |-> "split", samples |-> n,
                        splitIdx |-> SplitIdx(n),
                        xTrain |-> TensorSlice(X, 0, SplitIdx(n)),
                        xVal |-> TensorSlice(X, SplitIdx(n), 0 - 1),
                        batchSize |-> BatchSize(n),
                        valX |-> ArraySlice(X, SplitIdx(n))]
        /\ UNCHANGED <<model, netCount, weights, trained, trainingHistory,
                       pc, run, trainCalls>>
        /\ UNCHANGED dataVars
        /\ UNCHANGED app

SplitNext ==
    \E n \in 1..MaxSplitSamples :
        /\ lastCall.op = "new"
        /\ TrainSplit(n)

SpecSplit == Init /\ [][SplitNext]_vars

\* C25 as claimed: for every N >= 1 the batch size is
\* min(16, max(4, floor(N / 8))), it lies in [4, 16], and the training set
\* of floor(0.8 N) samples holds at least one full batch.
C25_BatchSizeAndFullBatch ==
    lastCall.op = "split" =>
        LET n == lastCall.samples
            floorEighth == CHOOSE q \in 0..n : 8 * q <= n /\ n < 8 * (q + 1)
            expected == IF floorEighth < 4 THEN 4
                        ELSE IF floorEighth > 16 THEN 16 ELSE floorEighth
        IN  /\ lastCall.batchSize = expected
            /\ lastCall.batchSize \in 4..16
            /\ Len(lastCall.xTrain) >= lastCall.batchSize

\* C25 amended: the batch size is min(16, max(4, floor(N / 8))), in [4, 16],
\* for every N >= 1; the training set holds at least one full batch exactly
\* when N >= 5 (for N <= 4 it has fewer than 4 samples).
C25_FullBatchFromFiveSamples ==
    lastCall.op = "split" =>
        LET n == lastCall.samples
            floorEighth == CHOOSE q \in 0..n : 8 * q <= n /\ n < 8 * (q + 1)
            expected == IF floorEighth < 4 THEN 4
                        ELSE IF floorEighth > 16 THEN 16 ELSE floorEighth
        IN  /\ lastCall.batchSize = expected
            /\ lastCall.batchSize \in 4..16
            /\ (Len(lastCall.xTrain) >= lastCall.batchSize) <=> (n >= 5)

\* C25 witness: a sample count at which the batch size is neither the floor
\* nor the cap.
C25_Witness ==
    /\ lastCall.op = "split"
    /\ lastCall.batchSize \in 5..15
    /\ Len(lastCall.xTrain) > lastCall.batchSize

-----------------------------------------------------------------------------
(***************************************************************************)
(* Claims about the normalizer map.                                        *)
(***************************************************************************)
\* C26: after any sequence of normalize and prepareTrainingData calls, empty
\* and constant series included, every entry of the normalizer map has
\* min <= max, range = max - min when max > min and range = 1 when
\* max = min; the range is never 0 and never negative.
C26_EntriesWellFormed ==
    \A key \in DOMAIN normalizers :
        LET e == normalizers[key]
        IN  /\ ~IsNaN(e.min) /\ ~IsNaN(e.max) /\ ~IsNaN(e.range)
            /\ LessEq(e.min, e.max)
            /\ Less(e.min, e.max) => e.range = Sub(e.max, e.min)
            /\ e.min = e.max => e.range = Num(1)
            /\ Less(Num(0), e.range)

\* C27: denormalize and denormalizePrediction are read-only on the
\* normalizer map, whether or not the requested key has an entry: the map
\* changes only in a normalize or a prepareTrainingData call.
C27_DenormalizationReadOnly ==
    [][/\ dpCall'.op \in {"denormalize", "denormalizePrediction"}
            => normalizers' = normalizers
       /\ normalizers' # normalizers
            => dpCall'.op \in {"normalize", "prepareTrainingData"}]_vars

\* C27 witness: on a map with entries, a denormalize call for a key without
\* an entry and a denormalizePrediction call have followed each other.
C27_Witness ==
    /\ DOMAIN normalizers # {}
    /\ dpPrev.op = "denormalizePrediction"
    /\ dpCall.op = "denormalize"
    /\ dpCall.warned
    /\ Len(dpPrev.prediction) > 0

\* a number of the unit interval
InUnitInterval(v) == ~IsNaN(v) /\ LessEq(Num(0), v) /\ LessEq(v, Num(1))

\* C28: every value of every X and Y that prepareTrainingData returns lies
\* in [0, 1], after any sequence of prepareTrainingData calls on the
\* processor, a later call with another price range for a source already
\* seen included.
C28_WindowValuesInUnitInterval ==
    (WindowCall /\ dpCall.result.status = "ok")
        => LET r == dpCall.result
           IN  /\ \A i \in 1..Len(r.X) : \A t \in 1..Len(r.X[i]) :
                     \A f \in 1..Len(r.X[i][t]) : InUnitInterval(r.X[i][t][f])
               /\ \A i \in 1..Len(r.Y) : \A t \in 1..Len(r.Y[i]) :
                     \A f \in 1..Len(r.Y[i][t]) : InUnitInterval(r.Y[i][t][f])


-----------------------------------------------------------------------------
(***************************************************************************)
(* Claims about the trainings the App starts.                              *)
(***************************************************************************)
\* C24: the training set of a run is samples 0 .. floor(0.8 N) - 1, the
\* validation set the remaining samples, in window order, and the slice
\* calculateMetrics evaluates after the run is that validation set.
C24_MetricSliceIsValidationSet ==
    app.metrics.made
        => LET X == app.metrics.trainedOn.trainingData.X
               splitIdx == SplitIdx(Len(X))
               xTrain == TensorSlice(X, 0, splitIdx)
               xVal == TensorSlice(X, splitIdx, 0 - 1)
           IN  /\ Len(xTrain) = splitIdx
               /\ xTrain \o xVal = X
               /\ app.metrics.valX = xVal

\* C29: at most one training run is in progress: no Train starts a second
\* run, or disposes the model being fitted, while a run is suspended at a
\* training yield.
C29_AtMostOneTrainingRun ==
    app.displaced = 0

\* C30: while the model App.train built is being trained, its configuration
\* agrees with the training data: inputDim = featureCount = 5 * numSources,
\* and lookback and forecast are those the windows were built with.
C30_ConfigAgreesWithTrainingData ==
    pc # "idle"
        => LET data == app.modelData
           IN  /\ app.config.inputDim = data.trainingData.featureCount
               /\ app.config.inputDim = 5 * app.config.numSources
               /\ app.config.lookback = data.lookback
               /\ app.config.forecast = data.forecast

\* the split of train() alone, and the slice of calculateMetrics on the same
\* X: samples 0 .. splitIdx - 1 are trained on, the rest validated, and the
\* two slices of the rest agree
SplitPartitionsSamples ==
    lastCall.op = "split"
        => /\ lastCall.xTrain = [i \in 1..lastCall.splitIdx |-> i - 1]
           /\ lastCall.xTrain \o lastCall.xVal = SampleIds(lastCall.samples)
           /\ lastCall.valX = lastCall.xVal
=============================================================================
